---- MODULE Spec2Model ----
(***************************************************************************)
(* Model of BrowserNotificationManager (static/browser_notifications.js):  *)
(* the permission state machine, the polling timer(s), the in-flight       *)
(* fetches and the lastNotificationId watermark.                           *)
(*                                                                         *)
(* The page is single-threaded: every action below is one task of the      *)
(* event loop (a click handler, a timer callback, the continuation of an   *)
(* await).  The platform (Notification, setInterval, fetch) is modelled by *)
(* the variables platformPermission, timers and the in-flight counters.    *)
(* The platform permission is sticky: once the user has answered granted   *)
(* or denied, Notification.requestPermission() resolves to that answer.    *)
(*                                                                         *)
(* Spec is the whole client from construction on.  PollSpec applies        *)
(* checkForNewNotifications, as a function of the watermark and the        *)
(* gateway's response, to longer batches than Spec lets the gateway send.  *)
(***************************************************************************)
EXTENDS Integers, Sequences, FiniteSets

\* ---- bounds of the model ----
MaxId == 2              \* notification ids are 0..MaxId
MaxBatch == 1           \* longest batch the gateway returns in Spec
MaxPollBatch == 2       \* longest batch the poll is applied to in PollSpec
MaxFetches == 2         \* fetches issued in one run
MaxRequests == 2        \* requestPermission() calls in one run
MaxJobId == 1           \* job ids passed to triggerNotification are 0..MaxJobId

Ids == 0..MaxId
NULL == -1              \* lastNotificationId = null
UNDEF == 0              \* monitoringInterval = undefined (timer ids are > 0)

Permissions == {"default", "granted", "denied"}

\* data.notifications: the notification_id of each item, up to n items.
Batches(n) == UNION {[1..m -> Ids] : m \in 0..n}

\* What one poll can come back with: fetch() rejects, response.json()
\* rejects, or a JSON body {success, notifications}.
Outcomes(n) ==
    {[kind |-> k, batch |-> <<>>] : k \in {"transport", "malformed"}}
      \cup {[kind |-> k, batch |-> b] : k \in {"successFalse", "ok"}, b \in Batches(n)}

PollOutcomes == Outcomes(MaxBatch)

VARIABLES
    platformPermission,   \* Notification.permission
    permission,           \* this.permission
    lastNotificationId,   \* this.lastNotificationId
    monitoringInterval,   \* this.monitoringInterval
    timers,               \* interval timers the platform has scheduled
    nextTimerId,          \* next id setInterval returns
    prompt,               \* #notificationPrompt: "absent", "visible", "leaving"
    requestCount,         \* requestPermission() calls made so far
    pendingRequests,      \* requestPermission() calls awaiting the user
    initialInFlight,      \* startMonitoring() calls awaiting their initial check
    startsReady,          \* startMonitoring() calls whose await has resolved
    timerInFlight,        \* checkForNewNotifications() calls issued by a timer
    fetchCount,           \* fetches issued so far
    fetchedWhile,         \* values of this.permission under which fetch() ran
    displayedWhile,       \* values of this.permission under which new Notification() ran
    shownIds,             \* the ids polling has handed to the platform
    redisplayed,          \* polling has handed some id to the platform a second time
    deniedMessages,       \* showDeniedMessage() calls
    declined,             \* some permission request was answered "denied"
    stopped,              \* stopMonitoring() returned and no startMonitoring() since
    stopStreak,           \* stopMonitoring() calls in a row just made (0, 1, 2 = two or more)
    lastPoll,             \* outcome kind and number of displays of the poll the
                          \* last step processed, NoPoll after any other step
    refused,              \* showNotification returned at its permission guard
    pollArg,              \* PollSpec: the client state and response a poll is applied to
    pollResult,           \* PollSpec: what checkForNewNotifications made of pollArg
    triggerArg,           \* TriggerSpec: the type and jobId triggerNotification is called with
    triggerResult         \* TriggerSpec: the icon and url it asks showNotification for

vars == <<platformPermission, permission, lastNotificationId, monitoringInterval,
          timers, nextTimerId, prompt, requestCount, pendingRequests, initialInFlight,
          startsReady, timerInFlight, fetchCount, fetchedWhile, displayedWhile,
          shownIds, redisplayed, deniedMessages, declined, stopped, stopStreak, lastPoll, refused,
          pollArg, pollResult, triggerArg, triggerResult>>

RECURSIVE MaxOf(_)
\* Math.max(...ids) over a non-empty sequence
MaxOf(s) ==
    IF Len(s) = 1 THEN s[1]
    ELSE LET m == MaxOf(Tail(s)) IN IF s[1] >= m THEN s[1] ELSE m

\* showNotification without its permission guard.
showNotificationUnguarded(perm) == TRUE

\* showNotification: the guard on this.permission; TRUE when the platform
\* Notification is constructed.
showNotification(perm) == perm = "granted"

\* The skip test of the forEach callback: JS truthiness of lastNotificationId
\* (null and 0 are falsy) and then the comparison.
skipNotification(last, id) ==
    (last # NULL /\ last # 0) /\ id <= last

\* The items of a batch the forEach hands to showNotification, in order.
toShow(last, batch) ==
    SelectSeq(batch, LAMBDA id : ~skipNotification(last, id))

\* The watermark taken from the first item of the batch instead of Math.max.
updateLastFromFirst(last, batch) ==
    IF Len(batch) > 0 THEN batch[1] ELSE last

\* lastNotificationId after a batch was processed.
updateLast(last, batch) ==
    IF Len(batch) > 0 THEN MaxOf(batch) ELSE last

\* The poll without `if (!data.success) return`.
processesBatchIgnoringSuccess(outcome) == outcome.kind \in {"ok", "successFalse"}

\* Does the poll get past `if (!data.success) return` without throwing?
processesBatch(outcome) == outcome.kind = "ok"

\* init() starting the monitor whenever permission is not denied.
initStartsMonitoringUnlessDenied(perm) == perm # "denied"

\* init(): startMonitoring() only when permission is already granted,
\* the prompt only when it is "default".
initStartsMonitoring(perm) == perm = "granted"
initShowsPrompt(perm) == perm = "default"

\* startMonitoring() that goes straight to setInterval, without its check.
startMonitoringDeferred(m) == [m EXCEPT !.ready = @ + 1]

\* startMonitoring() up to its await, on the monitor's counters (initial
\* checks in flight, calls ready to resume, fetches issued): the call to
\* checkForNewNotifications() issues its fetch before anything is awaited.
startMonitoring(m) == [m EXCEPT !.inFlight = @ + 1, !.fetches = @ + 1]

\* The monitor's counters of a client that never started monitoring.
NotMonitoring == [inFlight |-> 0, ready |-> 0, fetches |-> 0]

NoPoll == [kind |-> "none", shown |-> 0]

\* The arguments and the result of the pure-function specification PollSpec
\* before anything is drawn or applied.
NoArg == [last |-> NULL, perm |-> "default", outcome |-> [kind |-> "none", batch |-> <<>>]]
NoResult == [shown |-> <<>>, last |-> NULL, done |-> FALSE]

InitClient ==
    /\ platformPermission \in Permissions
    /\ permission = platformPermission
    /\ lastNotificationId = NULL
    /\ monitoringInterval = UNDEF
    /\ timers = {}
    /\ nextTimerId = 1
    /\ prompt = IF initShowsPrompt(permission) THEN "visible" ELSE "absent"
    /\ requestCount = 0
    /\ pendingRequests = 0
    /\ LET m == IF initStartsMonitoring(permission)
                   THEN startMonitoring(NotMonitoring) ELSE NotMonitoring IN
          /\ initialInFlight = m.inFlight
          /\ startsReady = m.ready
          /\ fetchCount = m.fetches
    /\ timerInFlight = 0
    /\ fetchedWhile = IF initStartsMonitoring(permission) THEN {permission} ELSE {}
    /\ displayedWhile = {}
    /\ shownIds = {}
    /\ redisplayed = FALSE
    /\ deniedMessages = 0
    /\ declined = FALSE
    /\ stopped = FALSE
    /\ stopStreak = 0
    /\ lastPoll = NoPoll
    /\ refused = FALSE

\* The arguments and the result of the function specification TriggerSpec
\* before anything is drawn or applied.
NoTrigger == [type |-> "default", jobId |-> NULL]
NoDisplay == [done |-> FALSE, icon |-> "", pollIcon |-> "",
              url |-> [path |-> "", job |-> NULL], displayed |-> FALSE]

Init ==
    /\ InitClient
    /\ pollArg = NoArg
    /\ pollResult = NoResult
    /\ triggerArg = NoTrigger
    /\ triggerResult = NoDisplay

\* No continuation of startMonitoring() is queued as a microtask: the event
\* loop is free to run the next task (a click, a timer, a settled fetch).
TaskCanRun == startsReady = 0

\* Bookkeeping of a handler other than a poll completion or stopMonitoring.
NoPollNoStop ==
    /\ lastPoll' = NoPoll
    /\ stopStreak' = 0
    /\ UNCHANGED <<pollArg, pollResult, triggerArg, triggerResult>>

\* ---- the permission prompt ----

\* requestPermission() recording "granted" before the user has answered.
RequestPermissionOptimistic ==
    /\ TaskCanRun
    /\ requestCount < MaxRequests
    /\ requestCount' = requestCount + 1
    /\ pendingRequests' = pendingRequests + 1
    /\ permission' = "granted"
    /\ NoPollNoStop
    /\ UNCHANGED <<refused, platformPermission, lastNotificationId,
                   monitoringInterval, timers, nextTimerId, prompt,
                   initialInFlight, startsReady, timerInFlight, fetchCount,
                   fetchedWhile, displayedWhile, shownIds, redisplayed, deniedMessages,
                   declined, stopped>>

\* The "Enable Alerts" button, or a caller: requestPermission() up to its await.
RequestPermission ==
    /\ TaskCanRun
    /\ requestCount < MaxRequests
    /\ requestCount' = requestCount + 1
    /\ pendingRequests' = pendingRequests + 1
    /\ NoPollNoStop
    /\ UNCHANGED <<refused, platformPermission, permission, lastNotificationId,
                   monitoringInterval, timers, nextTimerId, prompt,
                   initialInFlight, startsReady, timerInFlight, fetchCount,
                   fetchedWhile, displayedWhile, shownIds, redisplayed, deniedMessages,
                   declined, stopped>>

\* What Notification.requestPermission() can resolve to: the user's answer
\* while the platform permission is "default" ("default" again when the
\* browser prompt is closed unanswered), the recorded answer afterwards.
Answers(platform) ==
    IF platform = "default" THEN Permissions ELSE {platform}

\* dismissPrompt(): the prompt, when in the document, starts its slide-out
\* and is removed 300ms later.
dismissPrompt(p) == IF p = "absent" THEN "absent" ELSE "leaving"

\* requestPermission() after its await, permission === 'granted':
\* showSuccessMessage, dismissPrompt, startMonitoring (which issues its
\* initial fetch before it suspends), showTestNotification.
PermissionGranted ==
    /\ TaskCanRun
    /\ pendingRequests > 0
    /\ "granted" \in Answers(platformPermission)
    /\ fetchCount < MaxFetches
    /\ pendingRequests' = pendingRequests - 1
    /\ platformPermission' = "granted"
    /\ permission' = "granted"
    /\ prompt' = dismissPrompt(prompt)
    /\ LET m == startMonitoring([inFlight |-> initialInFlight, ready |-> startsReady,
                                 fetches |-> fetchCount]) IN
          /\ initialInFlight' = m.inFlight
          /\ startsReady' = m.ready
          /\ fetchCount' = m.fetches
    /\ fetchedWhile' = fetchedWhile \cup {permission'}
    /\ stopped' = FALSE
    /\ displayedWhile' = IF showNotification(permission')
                            THEN displayedWhile \cup {permission'}
                            ELSE displayedWhile
    /\ refused' = (refused \/ ~showNotification(permission'))
    /\ NoPollNoStop
    /\ UNCHANGED <<lastNotificationId, monitoringInterval, timers, nextTimerId,
                   requestCount, timerInFlight, shownIds, redisplayed,
                   deniedMessages, declined>>

\* requestPermission() after its await, any other answer: showDeniedMessage.
PermissionNotGranted ==
    /\ TaskCanRun
    /\ pendingRequests > 0
    /\ \E answer \in Answers(platformPermission) \ {"granted"} :
          /\ platformPermission' = answer
          /\ permission' = answer
          /\ declined' = (declined \/ answer = "denied")
    /\ pendingRequests' = pendingRequests - 1
    /\ deniedMessages' = deniedMessages + 1
    /\ NoPollNoStop
    /\ UNCHANGED <<refused, lastNotificationId, monitoringInterval, timers, nextTimerId,
                   prompt, requestCount, initialInFlight, startsReady,
                   timerInFlight, fetchCount, fetchedWhile, displayedWhile,
                   shownIds, redisplayed, stopped>>

\* A dismissal that also shows the "permission denied" message.
DismissPromptAsDenial ==
    /\ TaskCanRun
    /\ prompt' = dismissPrompt(prompt)
    /\ deniedMessages' = deniedMessages + 1
    /\ NoPollNoStop
    /\ UNCHANGED <<refused, platformPermission, permission, lastNotificationId,
                   monitoringInterval, timers, nextTimerId, requestCount,
                   pendingRequests, initialInFlight, startsReady, timerInFlight,
                   fetchCount, fetchedWhile, displayedWhile, shownIds, redisplayed,
                   declined, stopped>>

\* The "Maybe Later" and close buttons, or a caller.
DismissPrompt ==
    /\ TaskCanRun
    /\ prompt' = dismissPrompt(prompt)
    /\ NoPollNoStop
    /\ UNCHANGED <<refused, platformPermission, permission, lastNotificationId,
                   monitoringInterval, timers, nextTimerId, requestCount,
                   pendingRequests, initialInFlight, startsReady, timerInFlight,
                   fetchCount, fetchedWhile, displayedWhile, shownIds, redisplayed,
                   deniedMessages, declined, stopped>>

\* The 300ms timeout of dismissPrompt: prompt.remove().
PromptRemoved ==
    /\ TaskCanRun
    /\ prompt = "leaving"
    /\ prompt' = "absent"
    /\ NoPollNoStop
    /\ UNCHANGED <<refused, platformPermission, permission, lastNotificationId,
                   monitoringInterval, timers, nextTimerId, requestCount,
                   pendingRequests, initialInFlight, startsReady, timerInFlight,
                   fetchCount, fetchedWhile, displayedWhile, shownIds, redisplayed,
                   deniedMessages, declined, stopped>>

\* ---- polling ----

\* How often id occurs in a sequence of ids.
Occurrences(s, id) == Cardinality({k \in 1..Len(s) : s[k] = id})

\* checkForNewNotifications() from the point where fetch/json settle to its
\* end, on the client state (last, perm): the ids the platform displays, in
\* order, whether showNotification turned an item down, and the new
\* lastNotificationId.
checkForNewNotifications(last, perm, outcome) ==
    IF processesBatch(outcome)
      THEN [shown   |-> IF showNotification(perm)
                          THEN toShow(last, outcome.batch) ELSE <<>>,
            refused |-> toShow(last, outcome.batch) # <<>> /\ ~showNotification(perm),
            last    |-> updateLast(last, outcome.batch)]
      ELSE [shown |-> <<>>, refused |-> FALSE, last |-> last]

\* The part of a poll's completion that both kinds of poll share.
PollCompletes(outcome) ==
    LET r == checkForNewNotifications(lastNotificationId, permission, outcome) IN
    /\ lastNotificationId' = r.last
    /\ shownIds' = shownIds \cup {r.shown[k] : k \in 1..Len(r.shown)}
    /\ redisplayed' = (redisplayed \/ \E i \in Ids :
                          Occurrences(r.shown, i) + (IF i \in shownIds THEN 1 ELSE 0) > 1)
    /\ displayedWhile' = IF r.shown # <<>>
                            THEN displayedWhile \cup {permission}
                            ELSE displayedWhile
    /\ refused' = (refused \/ r.refused)
    /\ lastPoll' = [kind |-> outcome.kind, shown |-> Len(r.shown)]
    /\ stopStreak' = 0
    /\ UNCHANGED <<pollArg, pollResult, triggerArg, triggerResult>>

\* checkForNewNotifications() without its try/catch: a failed fetch or an
\* unparsable body rejects the promise startMonitoring() awaits.
checkRejectsOnError(outcome) == outcome.kind \in {"transport", "malformed"}

\* Does the promise of checkForNewNotifications() reject? Never: the catch
\* block logs every error and the function returns normally.
checkRejects(outcome) == FALSE

\* The initial check of a startMonitoring() call settles; the call itself
\* resumes in the next microtask (StartMonitoringResumes), before any other
\* task runs.
InitialCheckDone ==
    /\ TaskCanRun
    /\ initialInFlight > 0
    /\ \E outcome \in PollOutcomes :
          /\ PollCompletes(outcome)
          /\ startsReady' = IF checkRejects(outcome) THEN startsReady
                                                     ELSE startsReady + 1
    /\ initialInFlight' = initialInFlight - 1
    /\ UNCHANGED <<platformPermission, permission, monitoringInterval, timers,
                   nextTimerId, prompt, requestCount, pendingRequests,
                   timerInFlight, fetchCount, fetchedWhile, deniedMessages,
                   declined, stopped>>

\* startMonitoring() after its await: setInterval, the handle stored in
\* this.monitoringInterval (overwriting any earlier handle).
StartMonitoringResumes ==
    /\ startsReady > 0
    /\ startsReady' = startsReady - 1
    /\ timers' = timers \cup {nextTimerId}
    /\ monitoringInterval' = nextTimerId
    /\ nextTimerId' = nextTimerId + 1
    /\ NoPollNoStop
    /\ UNCHANGED <<refused, platformPermission, permission, lastNotificationId, prompt,
                   requestCount, pendingRequests, initialInFlight, timerInFlight,
                   fetchCount, fetchedWhile, displayedWhile, shownIds, redisplayed,
                   deniedMessages, declined, stopped>>

\* An interval timer fires: checkForNewNotifications() up to its await.
TimerFires ==
    /\ TaskCanRun
    /\ fetchCount < MaxFetches
    /\ \E t \in timers :
          /\ timerInFlight' = timerInFlight + 1
          /\ fetchCount' = fetchCount + 1
          /\ fetchedWhile' = fetchedWhile \cup {permission}
    /\ NoPollNoStop
    /\ UNCHANGED <<refused, platformPermission, permission, lastNotificationId,
                   monitoringInterval, timers, nextTimerId, prompt, requestCount,
                   pendingRequests, initialInFlight, startsReady, displayedWhile,
                   shownIds, redisplayed, deniedMessages, declined, stopped>>

\* A check that, once settled, is issued again at once.
TimerCheckDoneRetrying ==
    /\ TaskCanRun
    /\ timerInFlight > 0
    /\ \E outcome \in PollOutcomes : PollCompletes(outcome)
    /\ fetchCount' = fetchCount + 1
    /\ UNCHANGED <<platformPermission, permission, monitoringInterval, timers,
                   nextTimerId, prompt, requestCount, pendingRequests,
                   initialInFlight, startsReady, timerInFlight, fetchedWhile,
                   deniedMessages, declined, stopped>>

\* A check issued by a timer settles.
TimerCheckDone ==
    /\ TaskCanRun
    /\ timerInFlight > 0
    /\ \E outcome \in PollOutcomes : PollCompletes(outcome)
    /\ timerInFlight' = timerInFlight - 1
    /\ UNCHANGED <<platformPermission, permission, monitoringInterval, timers,
                   nextTimerId, prompt, requestCount, pendingRequests,
                   initialInFlight, startsReady, fetchCount, fetchedWhile,
                   deniedMessages, declined, stopped>>

\* A stop that, once its own handle is cleared, clears another scheduled timer.
stopMonitoringPop(scheduled, handle) ==
    IF handle = UNDEF THEN scheduled
    ELSE IF handle \in scheduled THEN scheduled \ {handle}
    ELSE IF scheduled = {} THEN scheduled
    ELSE scheduled \ {CHOOSE t \in scheduled : \A u \in scheduled : u <= t}

\* clearInterval(handle) behind `if (this.monitoringInterval)`: the timers
\* still scheduled afterwards.  The handle itself is kept.
stopMonitoring(scheduled, handle) ==
    IF handle # UNDEF THEN scheduled \ {handle} ELSE scheduled

StopMonitoring ==
    /\ TaskCanRun
    /\ timers' = stopMonitoring(timers, monitoringInterval)
    /\ stopped' = TRUE
    /\ stopStreak' = IF stopStreak < 2 THEN stopStreak + 1 ELSE 2
    /\ lastPoll' = NoPoll
    /\ UNCHANGED <<pollArg, pollResult, triggerArg, triggerResult>>
    /\ UNCHANGED <<refused, platformPermission, permission, lastNotificationId,
                   monitoringInterval, nextTimerId, prompt, requestCount,
                   pendingRequests, initialInFlight, startsReady, timerInFlight,
                   fetchCount, fetchedWhile, displayedWhile, shownIds, redisplayed,
                   deniedMessages, declined>>

\* The beforeunload listener: stopMonitoring() on the page's instance.
BeforeUnload ==
    /\ TaskCanRun
    /\ timers' = stopMonitoring(timers, monitoringInterval)
    /\ stopped' = TRUE
    /\ NoPollNoStop
    /\ UNCHANGED <<refused, platformPermission, permission, lastNotificationId,
                   monitoringInterval, nextTimerId, prompt, requestCount,
                   pendingRequests, initialInFlight, startsReady, timerInFlight,
                   fetchCount, fetchedWhile, displayedWhile, shownIds, redisplayed,
                   deniedMessages, declined>>

\* A manual trigger that also checks the gateway for new notifications.
TriggerNotificationPolling ==
    /\ TaskCanRun
    /\ fetchCount < MaxFetches
    /\ timerInFlight' = timerInFlight + 1
    /\ fetchCount' = fetchCount + 1
    /\ fetchedWhile' = fetchedWhile \cup {permission}
    /\ displayedWhile' = IF showNotification(permission)
                            THEN displayedWhile \cup {permission}
                            ELSE displayedWhile
    /\ refused' = (refused \/ ~showNotification(permission))
    /\ NoPollNoStop
    /\ UNCHANGED <<platformPermission, permission, lastNotificationId,
                   monitoringInterval, timers, nextTimerId, prompt, requestCount,
                   pendingRequests, initialInFlight, startsReady,
                   shownIds, redisplayed, deniedMessages, declined, stopped>>

\* triggerNotification(type, title, message, jobId): showNotification only.
\* The type and jobId reach only the options of the displayed notification
\* (TriggerSpec computes them); no field of the client depends on them.
TriggerNotification ==
    /\ TaskCanRun
    /\ displayedWhile' = IF showNotification(permission)
                            THEN displayedWhile \cup {permission}
                            ELSE displayedWhile
    /\ refused' = (refused \/ ~showNotification(permission))
    /\ NoPollNoStop
    /\ UNCHANGED <<platformPermission, permission, lastNotificationId,
                   monitoringInterval, timers, nextTimerId, prompt, requestCount,
                   pendingRequests, initialInFlight, startsReady, timerInFlight,
                   fetchCount, fetchedWhile, shownIds, redisplayed, deniedMessages, declined,
                   stopped>>

Next ==
    \/ RequestPermission
    \/ PermissionGranted
    \/ PermissionNotGranted
    \/ DismissPrompt
    \/ PromptRemoved
    \/ InitialCheckDone
    \/ StartMonitoringResumes
    \/ TimerFires
    \/ TimerCheckDone
    \/ StopMonitoring
    \/ BeforeUnload
    \/ TriggerNotification

Spec == Init /\ [][Next]_vars

\* The client under a running event loop: a queued continuation of
\* startMonitoring() runs, and a scheduled timer keeps firing. Nothing is
\* assumed about when, or whether, a fetch settles.
FairSpec ==
    /\ Spec
    /\ WF_vars(StartMonitoringResumes)
    /\ WF_vars(TimerFires)

\* ---- checkForNewNotifications as a function ----

\* The client states a poll can be processed in (polls run under granted
\* permission only, with any watermark) and the responses it can get.
PollArgs ==
    [last : {NULL} \cup Ids, perm : {"granted"}, outcome : Outcomes(MaxPollBatch)]

PollInit ==
    /\ InitClient
    /\ platformPermission = "granted"
    /\ pollArg \in PollArgs
    /\ pollResult = NoResult
    /\ triggerArg = NoTrigger
    /\ triggerResult = NoDisplay

ApplyPoll ==
    /\ ~pollResult.done
    /\ LET r == checkForNewNotifications(pollArg.last, pollArg.perm, pollArg.outcome) IN
         pollResult' = [shown |-> r.shown, last |-> r.last, done |-> TRUE]
    /\ UNCHANGED <<platformPermission, permission, lastNotificationId,
                   monitoringInterval, timers, nextTimerId, prompt, requestCount,
                   pendingRequests, initialInFlight, startsReady, timerInFlight,
                   fetchCount, fetchedWhile, displayedWhile, shownIds, redisplayed,
                   deniedMessages, declined, stopped, stopStreak, lastPoll,
                   refused, pollArg, triggerArg, triggerResult>>

PollSpec == PollInit /\ [][ApplyPoll]_vars

\* ---- triggerNotification as a function ----

\* The type values triggerNotification and the gateway's items are drawn
\* from: the keys of the icons table, a type outside it, the spec's
\* "default", and a name every object literal inherits from Object.prototype.
Types == {"critical", "urgent", "new_job", "deadline", "success", "info",
          "default", "reminder", "toString"}

JobIds == {NULL} \cup (0..MaxJobId)

\* The icon checkForNewNotifications() picks without the new_job branch.
pollIconNoBriefcase(type) ==
    IF type = "critical" THEN "fire"
    ELSE IF type = "urgent" THEN "bolt"
    ELSE "bell"

\* The icon checkForNewNotifications() picks for an item of this type.
pollIcon(type) ==
    IF type = "critical" THEN "fire"
    ELSE IF type = "urgent" THEN "bolt"
    ELSE IF type = "new_job" THEN "briefcase"
    ELSE "bell"

\* The icons table of triggerNotification().
icons ==
    [t \in {"critical", "urgent", "new_job", "deadline", "success", "info"} |->
        CASE t = "critical" -> "fire"
          [] t = "urgent"   -> "bolt"
          [] t = "new_job"  -> "briefcase"
          [] t = "deadline" -> "clock"
          [] t = "success"  -> "check"
          [] t = "info"     -> "bulb"]

\* Property names icons[type] finds on Object.prototype.
InheritedKeys == {"toString"}

\* icons[type] || the bell: an own key gives its glyph, an inherited name a
\* function (truthy, so it is what showNotification receives as the icon),
\* anything else is undefined and falls back to the bell.
triggerIcon(type) ==
    IF type \in DOMAIN icons THEN icons[type]
    ELSE IF type \in InheritedKeys THEN "inherited"
    ELSE "bell"

\* jobId ? `/jobs#job-${jobId}` : '/jobs' (null and 0 are falsy).
jobUrl(jobId) ==
    IF jobId # NULL /\ jobId # 0 THEN [path |-> "/jobs#job-", job |-> jobId]
                                 ELSE [path |-> "/jobs", job |-> NULL]

TriggerArgs == [type : Types, jobId : JobIds]

TriggerInit ==
    /\ InitClient
    /\ pollArg = NoArg
    /\ pollResult = NoResult
    /\ triggerArg \in TriggerArgs
    /\ triggerResult = NoDisplay

\* triggerNotification(type, title, message, jobId) on a freshly constructed
\* client, next to the icon a polled item of the same type gets.
ApplyTrigger ==
    /\ ~triggerResult.done
    /\ triggerResult' = [done      |-> TRUE,
                         icon      |-> triggerIcon(triggerArg.type),
                         pollIcon  |-> pollIcon(triggerArg.type),
                         url       |-> jobUrl(triggerArg.jobId),
                         displayed |-> showNotification(permission)]
    /\ UNCHANGED <<platformPermission, permission, lastNotificationId,
                   monitoringInterval, timers, nextTimerId, prompt, requestCount,
                   pendingRequests, initialInFlight, startsReady, timerInFlight,
                   fetchCount, fetchedWhile, displayedWhile, shownIds, redisplayed,
                   deniedMessages, declined, stopped, stopStreak, lastPoll,
                   refused, pollArg, pollResult, triggerArg>>

TriggerSpec == TriggerInit /\ [][ApplyTrigger]_vars

\* ---- properties ----

\* C1: no notification id is handed to the platform display more than once
\* by polling, whatever batches the gateway returns.
NoIdDisplayedTwice == ~redisplayed

\* C2: once lastNotificationId is set, no step makes it smaller.
WatermarkNeverDecreases ==
    [][lastNotificationId # NULL =>
         (lastNotificationId' # NULL /\ lastNotificationId' >= lastNotificationId)]_vars

\* C3: the platform Notification is never constructed while this.permission
\* is "denied", whichever caller asks for it.
DeniedNeverDisplays == "denied" \notin displayedWhile

DeniedTriggerWitness ==
    permission = "denied" /\ refused

\* C4: between a stopMonitoring() and the next startMonitoring() no fetch is
\* issued.
NoFetchAfterStop ==
    [][(stopped /\ stopped') => fetchCount' = fetchCount]_vars

\* C5: fetch() runs only while this.permission is "granted".
FetchOnlyWhenGranted == fetchedWhile \subseteq {"granted"}

FetchAfterGrantWitness ==
    /\ prompt = "leaving"
    /\ permission = "granted"
    /\ deniedMessages > 0
    /\ fetchedWhile = {"granted"}

PollShowsExactlyNewer ==
    (pollResult.done /\ pollArg.outcome.kind = "ok" /\ pollArg.perm = "granted") =>
        pollResult.shown =
            SelectSeq(pollArg.outcome.batch,
                      LAMBDA id : pollArg.last = NULL \/ id > pollArg.last)

\* C8: after a successful poll the watermark is the greatest id of the
\* fetched batch, or unchanged when the batch is empty.
WatermarkIsBatchMax ==
    (pollResult.done /\ pollArg.outcome.kind = "ok") =>
        LET batch == pollArg.outcome.batch IN
        IF batch = <<>>
          THEN pollResult.last = pollArg.last
          ELSE /\ \E k \in 1..Len(batch) : batch[k] = pollResult.last
               /\ \A k \in 1..Len(batch) : batch[k] <= pollResult.last

BatchMaxWitness ==
    /\ pollResult.done
    /\ pollArg.outcome.kind = "ok"
    /\ Len(pollArg.outcome.batch) = 2
    /\ pollArg.outcome.batch[1] < pollArg.outcome.batch[2]
    /\ pollArg.outcome.batch[2] < pollArg.last
    /\ pollResult.shown = <<>>
    /\ pollResult.last = pollArg.outcome.batch[2]

\* C9: in a session in which a permission request was declined the denial
\* message has been shown exactly once.
DenialShownOnce == declined => deniedMessages = 1

\* The client's own state and the platform's, without the bookkeeping.
ClientState ==
    <<platformPermission, permission, lastNotificationId, monitoringInterval,
      timers, nextTimerId, prompt, requestCount, pendingRequests,
      initialInFlight, startsReady, timerInFlight, fetchCount, fetchedWhile,
      displayedWhile, shownIds, redisplayed, deniedMessages, declined>>

\* C10: a stopMonitoring() that directly follows a stopMonitoring(), and a
\* stopMonitoring() on a client that never started polling, change nothing.
StopIsIdempotent ==
    [][(StopMonitoring /\ (stopStreak >= 1 \/ fetchCount = 0)) =>
         ClientState' = ClientState]_vars

StopTwiceWitness ==
    /\ stopStreak = 2
    /\ monitoringInterval # UNDEF
    /\ timers # {}

\* C11: in every reachable state at most one recurring poll timer is
\* scheduled, also after requestPermission() was called more than once or
\* after permission was already granted at init.
AtMostOneTimer == Cardinality(timers) <= 1

\* C12: a response that arrives after stopMonitoring() is discarded: the
\* poll completing in a stopped client displays nothing and leaves
\* lastNotificationId as it was.
StoppedPollDiscarded ==
    [][(stopped /\ stopped' /\ lastPoll'.kind # "none") =>
          (lastPoll'.shown = 0 /\ shownIds' = shownIds
             /\ lastNotificationId' = lastNotificationId)]_vars

\* C13: triggerNotification() changes no state of the client, whatever the
\* permission: lastNotificationId, permission, the timers and the handle
\* are as before, and no fetch is issued.
TriggerMutatesNothing ==
    [][TriggerNotification =>
          /\ lastNotificationId' = lastNotificationId
          /\ permission' = permission
          /\ platformPermission' = platformPermission
          /\ timers' = timers
          /\ monitoringInterval' = monitoringInterval
          /\ nextTimerId' = nextTimerId
          /\ fetchCount' = fetchCount
          /\ initialInFlight' = initialInFlight
          /\ timerInFlight' = timerInFlight
          /\ startsReady' = startsReady
          /\ pendingRequests' = pendingRequests
          /\ prompt' = prompt]_vars

\* A manual trigger displayed under "granted" in a client that polls, and
\* nothing else has displayed anything.
TriggerWhilePollingWitness ==
    /\ displayedWhile = {"granted"}
    /\ requestCount = 0
    /\ shownIds = {}
    /\ timers # {}

\* startMonitoring() calls so far: awaiting the initial check, ready to
\* resume, or resumed (each resumed call took one timer id).
Starts == initialInFlight + startsReady + (nextTimerId - 1)

\* C14: every startMonitoring() call issues one fetch at once: the step that
\* starts monitoring issues exactly one fetch and schedules no timer, so the
\* fetch precedes the first firing of the timer.
StartFetchesImmediately ==
    /\ fetchCount = Starts
    /\ [][Starts' # Starts =>
            /\ Starts' = Starts + 1
            /\ fetchCount' = fetchCount + 1
            /\ initialInFlight' = initialInFlight + 1
            /\ timers' = timers
            /\ nextTimerId' = nextTimerId]_vars

\* A start made by requestPermission(): its fetch is in flight and no timer
\* was ever scheduled.
StartByGrantWitness ==
    /\ requestCount > 0
    /\ initialInFlight = 1
    /\ fetchCount = 1
    /\ nextTimerId = 1
    /\ permission = "granted"

\* Polls in flight: fetches issued whose response is not processed yet.
InFlight == initialInFlight + timerInFlight

Highest(S) == CHOOSE m \in S : \A i \in S : i <= m

\* C17: whenever lastNotificationId is set, it is the highest id among the
\* items polling has displayed so far.
WatermarkIsHighestShown ==
    lastNotificationId # NULL =>
        (shownIds # {} /\ lastNotificationId = Highest(shownIds))

\* C18: permission changes only in the step in which requestPermission()
\* resumes with the user's answer; no other step changes it, and once it is
\* "granted" or "denied" it never is "default" again.
PermissionChangesOnlyOnAnswer ==
    [][/\ (permission' # permission => (PermissionGranted \/ PermissionNotGranted))
       /\ (permission # "default" => permission' # "default")]_vars

\* The user's refusal was recorded, and a dismissal, a manual trigger and a
\* stop have run.
AnswerRecordedWitness ==
    /\ declined
    /\ permission = "denied"
    /\ prompt = "leaving"
    /\ refused
    /\ stopped

\* The mapping C19 states: flame, bolt, briefcase, and the bell otherwise.
StatedIcon(type) ==
    CASE type = "critical" -> "fire"
      [] type = "urgent"   -> "bolt"
      [] type = "new_job"  -> "briefcase"
      [] OTHER             -> "bell"

\* C19 as stated: a polled item and a manual trigger of the same type get
\* the same icon, the one of the stated mapping.
IconsFollowStatedMapping ==
    triggerResult.done =>
        /\ triggerResult.pollIcon = StatedIcon(triggerArg.type)
        /\ triggerResult.icon = StatedIcon(triggerArg.type)

\* C19: a polled item gets the icon of the stated mapping; a manual trigger
\* gets it too unless its type is deadline, success or info (which have
\* glyphs of their own) or a name inherited from Object.prototype (which
\* yields no glyph at all).
IconsAgreeOutsideExtraKeys ==
    triggerResult.done =>
        /\ triggerResult.pollIcon = StatedIcon(triggerArg.type)
        /\ triggerArg.type = "deadline" => triggerResult.icon = "clock"
        /\ triggerArg.type = "success" => triggerResult.icon = "check"
        /\ triggerArg.type = "info" => triggerResult.icon = "bulb"
        /\ triggerArg.type \in InheritedKeys => triggerResult.icon = "inherited"
        /\ triggerArg.type \notin {"deadline", "success", "info"} \cup InheritedKeys =>
              triggerResult.icon = triggerResult.pollIcon

\* A manual trigger of type new_job was displayed with the briefcase.
BriefcaseWitness ==
    /\ triggerResult.done
    /\ triggerArg.type = "new_job"
    /\ triggerResult.icon = "briefcase"
    /\ triggerResult.pollIcon = "briefcase"
    /\ triggerResult.displayed

\* C20: dismissing the prompt only takes the prompt away: it requests no
\* permission, leaves permission alone, starts no polling, issues no fetch
\* and shows no denial message.
DismissIsPureUi ==
    [][DismissPrompt =>
          /\ ClientState' = [ClientState EXCEPT ![7] = dismissPrompt(prompt)]
          /\ stopped' = stopped
          /\ refused' = refused]_vars

\* The prompt was dismissed without any permission request.
DismissedWitness ==
    /\ prompt = "leaving"
    /\ requestCount = 0
    /\ permission = "default"
    /\ fetchCount = 0
    /\ deniedMessages = 0

====
